---------------------------- MODULE Spec2Model ----------------------------
(***************************************************************************)
(* A model of rs-piano-midi (src/src/main.rs): the fixed-timestep          *)
(* animation driver (Sketch), the particle system (Particles) and the      *)
(* software canvas (Canvas).                                               *)
(*                                                                         *)
(* The program computes in IEEE-754 single precision.  Every f32 value is  *)
(* modelled exactly, as a record [s, m, e] standing for s * m * 2^e with a *)
(* 24-bit significand m, and every f32 operation rounds to nearest, ties   *)
(* to even, as the hardware does.  TLC's integers are 32 bits wide, so the *)
(* operations below work on 12-bit limbs and guard bits.  Infinities, NaN, *)
(* subnormals and the sign of zero never arise for the inputs drawn here   *)
(* and are not represented.                                                *)
(***************************************************************************)
EXTENDS Integers, Sequences, FiniteSets, TLC

---------------------------------------------------------------------------
(* IEEE-754 binary32 arithmetic                                            *)

Two12 == 2^12
Two21 == 2^21
Two23 == 2^23
Two24 == 2^24

RECURSIVE BitLen(_)
BitLen(n) == IF n = 0 THEN 0 ELSE 1 + BitLen(n \div 2)

F32Zero == [s |-> 1, m |-> 0, e |-> 0]

\* The canonical record of s * m * 2^e for 0 <= m < 2^24 (an exact value).
F32Norm(s, m, e) ==
    IF m = 0 THEN F32Zero
    ELSE LET k == 24 - BitLen(m) IN [s |-> s, m |-> m * (2^k), e |-> e - k]

\* s * (n + t) * 2^e rounded to 24 bits, nearest, ties to even, where
\* 0 <= n < 2^31 and t is a tail with 0 < t < 1 when sticky, 0 otherwise.
F32Round(s, n, e, sticky) ==
    LET k == BitLen(n) - 24 IN
    IF k <= 0 THEN F32Norm(s, n, e)
    ELSE LET q    == n \div (2^k)
             r    == n % (2^k)
             half == 2^(k - 1)
             up   == \/ r > half
                     \/ r = half /\ (sticky \/ q % 2 = 1)
             q2   == IF up THEN q + 1 ELSE q
         IN  IF q2 = Two24 THEN [s |-> s, m |-> Two23, e |-> e + k + 1]
             ELSE [s |-> s, m |-> q2, e |-> e + k]

F32FromInt(n) == IF n < 0 THEN F32Norm(-1, -n, 0) ELSE F32Norm(1, n, 0)

F32Neg(a) == IF a.m = 0 THEN a ELSE [a EXCEPT !.s = -a.s]

\* |a| < |b|
F32MagLt(a, b) ==
    IF b.m = 0 THEN FALSE
    ELSE IF a.m = 0 THEN TRUE
    ELSE a.e < b.e \/ (a.e = b.e /\ a.m < b.m)

F32Lt(a, b) ==
    IF a.s = 1 /\ b.s = 1 THEN F32MagLt(a, b)
    ELSE IF a.s = -1 /\ b.s = -1 THEN F32MagLt(b, a)
    ELSE a.s = -1 /\ (a.m # 0 \/ b.m # 0)

F32Ge(a, b) == ~F32Lt(a, b)

\* |a| + |b| with sign s, for |a| >= |b| > 0: three guard bits and a sticky bit.
F32AddMag(s, a, b) ==
    LET d      == a.e - b.e
        A      == a.m * 8
        B8     == b.m * 8
        B      == IF d >= 27 THEN 0 ELSE B8 \div (2^d)
        sticky == IF d >= 27 THEN TRUE ELSE B8 % (2^d) # 0
    IN  F32Round(s, A + B, a.e - 3, sticky)

\* |a| - |b| with sign s, for |a| > |b| > 0.
F32SubMag(s, a, b) ==
    LET d      == a.e - b.e
        A      == a.m * 8
        B8     == b.m * 8
        B      == IF d >= 27 THEN 0 ELSE B8 \div (2^d)
        sticky == IF d >= 27 THEN TRUE ELSE B8 % (2^d) # 0
    IN  F32Round(s, A - B - (IF sticky THEN 1 ELSE 0), a.e - 3, sticky)

F32Add(a, b) ==
    IF a.m = 0 THEN b
    ELSE IF b.m = 0 THEN a
    ELSE IF a.s = b.s
         THEN IF F32MagLt(a, b) THEN F32AddMag(a.s, b, a) ELSE F32AddMag(a.s, a, b)
    ELSE IF F32MagLt(a, b) THEN F32SubMag(b.s, b, a)
    ELSE IF F32MagLt(b, a) THEN F32SubMag(a.s, a, b)
    ELSE F32Zero

F32Sub(a, b) == F32Add(a, F32Neg(b))

F32Mul(a, b) ==
    IF a.m = 0 \/ b.m = 0 THEN F32Zero
    ELSE LET ah  == a.m \div Two12
             al  == a.m % Two12
             bh  == b.m \div Two12
             bl  == b.m % Two12
             mid == ah * bl + al * bh
             lo  == (mid % Two12) * Two12 + al * bl
             H   == ah * bh + mid \div Two12 + lo \div Two24
             L   == lo % Two24
         IN  F32Round(a.s * b.s, H * 8 + L \div Two21, a.e + b.e + 21,
                      L % Two21 # 0)

\* The quotient n / d carried to k more binary digits, as <<quotient, remainder>>.
RECURSIVE LongDiv(_, _, _, _)
LongDiv(q, r, d, k) ==
    IF k = 0 THEN <<q, r>>
    ELSE IF 2 * r >= d THEN LongDiv(2 * q + 1, 2 * r - d, d, k - 1)
    ELSE LongDiv(2 * q, 2 * r, d, k - 1)

\* b # 0 (a division by zero gives an infinity or NaN, which is not modelled).
F32Div(a, b) ==
    IF a.m = 0 THEN F32Zero
    ELSE LET qr == LongDiv(a.m \div b.m, a.m % b.m, b.m, 27)
         IN  F32Round(a.s * b.s, qr[1], a.e - b.e - 27, qr[2] # 0)

\* Digit-by-digit square root: x holds `pairs` bit pairs still to bring down,
\* followed by `zeros` pairs of zero bits; <<root, remainder>>.
RECURSIVE SqrtDigits(_, _, _, _, _)
SqrtDigits(r, rem, x, pairs, zeros) ==
    IF pairs = 0 /\ zeros = 0 THEN <<r, rem>>
    ELSE LET w     == IF pairs > 0 THEN 4^(pairs - 1) ELSE 1
             d     == IF pairs > 0 THEN x \div w ELSE 0
             x2    == IF pairs > 0 THEN x % w ELSE 0
             rem2  == 4 * rem + d
             trial == 4 * r + 1
             p2    == IF pairs > 0 THEN pairs - 1 ELSE 0
             z2    == IF pairs > 0 THEN zeros ELSE zeros - 1
         IN  IF rem2 >= trial
             THEN SqrtDigits(2 * r + 1, rem2 - trial, x2, p2, z2)
             ELSE SqrtDigits(2 * r, rem2, x2, p2, z2)

\* f32::sqrt of a >= 0, correctly rounded.
F32Sqrt(a) ==
    IF a.m = 0 THEN F32Zero
    ELSE LET odd == a.e % 2 # 0
             x   == IF odd THEN 2 * a.m ELSE a.m
             e2  == IF odd THEN a.e - 1 ELSE a.e
             rr  == SqrtDigits(0, 0, x, 13, 14)
         IN  F32Round(1, rr[1], (e2 \div 2) - 14, rr[2] # 0)

\* `x as usize` / `x as u8`: truncation toward zero, saturating at 0 and max.
F32Trunc(a, max) ==
    IF a.s = -1 \/ a.m = 0 THEN 0
    ELSE IF a.e >= 0
         THEN IF a.e >= 7 THEN max
              ELSE LET v == a.m * (2^a.e) IN IF v > max THEN max ELSE v
    ELSE IF -a.e >= 24 THEN 0
    ELSE LET v == a.m \div (2^(-a.e)) IN IF v > max THEN max ELSE v

\* f32::round: to the nearest integer, halves away from zero (a.m < 2^24 so
\* values with e >= 0 are integers already).
F32RoundHalfAway(a) ==
    IF a.m = 0 \/ a.e >= 0 THEN a
    ELSE IF -a.e > 24 THEN F32Zero
    ELSE LET p == 2^(-a.e)
             q == a.m \div p
             r == a.m % p
         IN  F32FromInt(a.s * (IF 2 * r >= p THEN q + 1 ELSE q))

---------------------------------------------------------------------------
(* Constants of main.rs                                                    *)

FPS == 30
WIDTH == 640
HEIGHT == 480
SLOPE == 30
PALETTE_LEN == 5

\* `FRAME_TIME as f32`: 1.0 / 30.0 rounded to single precision.
FRAME_TIME == F32Div(F32FromInt(1), F32FromInt(FPS))
\* The literal 0.4 as an f32.
VIEW == F32Div(F32FromInt(4), F32FromInt(10))
SLOPE_ANGLE == F32Div(F32FromInt(SLOPE), F32FromInt(480))

Vec2(x, y) == [x |-> x, y |-> y]
Vec2Add(a, b) == Vec2(F32Add(a.x, b.x), F32Add(a.y, b.y))
Vec2DivScalar(a, k) == Vec2(F32Div(a.x, k), F32Div(a.y, k))
Vec2Sub(a, b) == Vec2(F32Sub(a.x, b.x), F32Sub(a.y, b.y))

\* No gravity.
GRAVITY_none == Vec2(F32Zero, F32Zero)

GRAVITY == Vec2(F32Zero, F32FromInt(1))

\* A time of the note table as midi_tool prints it: {:.3} seconds, read
\* back as an f32 literal.
Ms(n) == F32Div(F32FromInt(n), F32FromInt(1000))
\* A quarter-pixel quantity, exact in single precision.
Quarter(n) == F32Div(F32FromInt(n), F32FromInt(4))

---------------------------------------------------------------------------
(* Bounds and inputs                                                       *)

\* The run loop never ends; the model stops it after this many frames.
MaxFrame == 33

Note(ms, pitch) == <<Ms(ms), pitch>>

\* Note tables (song::NOTES), each sorted ascending by time, with at least
\* two distinct pitches.
Tables ==
    { << Note(0, 60), Note(500, 64), Note(1000, 67) >>,
      << Note(33, 60), Note(33, 72) >>,
      << Note(300, 62), Note(400, 60), Note(700, 69), Note(701, 65) >>,
      << Note(0, 48), Note(0, 48), Note(34, 50), Note(66, 49), Note(433, 59) >> }

\* Velocities spawn_explosion may draw: from_angle(-r1 * PI) * (r2 * 15.0)
\* with r1, r2 in [0, 1) has y <= 0 and length below 15.
VelLong == Vec2(Quarter(-10), Quarter(-59))
VelFlat == Vec2(F32FromInt(3), F32Zero)
VelMid == Vec2(F32FromInt(-4), F32FromInt(-3))
VelShort == Vec2(Quarter(2), Quarter(-1))

\* Outcomes of one spawn_explosion: fastrand::usize(2..5) velocities.
Explosions ==
    { << VelFlat, VelMid >>,
      << VelShort, VelMid, VelFlat >>,
      << VelMid, VelLong, VelFlat, VelShort >> }

---------------------------------------------------------------------------
(* State                                                                   *)

VARIABLES
    notes,                \* song::NOTES
    frame, time,          \* Sketch.frame, Sketch.time
    visible_notes,        \* Sketch.visible_notes
    note_lowest_highest,  \* Sketch.note_lowest_highest
    particles, lines,     \* Sketch.droplets: Particles.particles, .lines
    pc,                   \* the statement of Sketch::run the loop is at
    canvas_calls,         \* the drawing calls made on the canvas since its
                          \* buffer was last cleared (what the buffer shows)
    sink,                 \* the frame last presented by Canvas::display
    bursts,               \* history: every particles_for_note call so far
    canvas,               \* a Canvas: buffer, pen_color, blend_mode
    draws                 \* history: the calls made on `canvas`

vars == << notes, frame, time, visible_notes, note_lowest_highest, particles,
           lines, pc, canvas_calls, sink, bursts, canvas, draws >>

\* The driver's variables and the canvas's.
sketch_vars == << notes, frame, time, visible_notes, note_lowest_highest,
                  particles, lines, pc, canvas_calls, sink, bursts >>
canvas_vars == << canvas, draws >>

---------------------------------------------------------------------------
(* Pure functions                                                          *)

map(value, start1, stop1, start2, stop2) ==
    F32Add(F32Mul(F32Div(F32Sub(value, start1), F32Sub(stop1, start1)),
                  F32Sub(stop2, start2)),
           start2)

Max(a, b) == IF a > b THEN a ELSE b
Min(a, b) == IF a < b THEN a ELSE b

RECURSIVE FindLowestHighest(_, _, _, _)
FindLowestHighest(tab, i, lowest, highest) ==
    IF i > Len(tab) THEN << lowest, highest >>
    ELSE FindLowestHighest(tab, i + 1,
                           IF tab[i][2] < lowest THEN tab[i][2] ELSE lowest,
                           IF tab[i][2] > highest THEN tab[i][2] ELSE highest)

note_find_lowest_highest(tab) == FindLowestHighest(tab, 1, 255, 0)

\* slice::partition_point: binary search for the first index (0-based) at
\* which the predicate `note_time < t` is false.
RECURSIVE PartitionPoint(_, _, _, _)
PartitionPoint(tab, t, left, right) ==
    IF left >= right THEN left
    ELSE LET mid == left + (right - left) \div 2 IN
         IF F32Lt(tab[mid + 1][1], t)
         THEN PartitionPoint(tab, t, mid + 1, right)
         ELSE PartitionPoint(tab, t, left, mid)

\* Iterator::take_while from index i (1-based) on.
RECURSIVE TakeWhile(_, _, _)
TakeWhile(tab, i, limit) ==
    IF i > Len(tab) \/ ~F32Lt(tab[i][1], limit) THEN << >>
    ELSE << tab[i] >> \o TakeWhile(tab, i + 1, limit)

\* Sketch.time as update_visible_notes sets it in frame n.
TimeOfFrame(n) == F32Mul(F32FromInt(n), FRAME_TIME)

\* A take_while that lets the note at the window's far edge through.
VisibleNotes_inclusive(tab, t) ==
    LET skip == PartitionPoint(tab, t, 0, Len(tab))
        keep(n) == ~F32Lt(F32Add(t, VIEW), n[1])
    IN  SelectSeq(SubSeq(tab, skip + 1, Len(tab)), keep)

VisibleNotes(tab, t) ==
    TakeWhile(tab, PartitionPoint(tab, t, 0, Len(tab)) + 1, F32Add(t, VIEW))

pos_for(note, now, lh) ==
    LET time_left    == F32Sub(note[1], now)
        y            == map(time_left, F32Zero, VIEW, F32FromInt(HEIGHT), F32Zero)
        slope_offset == map(y, F32Zero, F32FromInt(HEIGHT), F32Zero, F32FromInt(SLOPE))
        x            == map(F32FromInt(note[2]), F32FromInt(lh[1]), F32FromInt(lh[2]),
                            F32FromInt(SLOPE),
                            F32Sub(F32FromInt(WIDTH), F32FromInt(SLOPE)))
    IN  Vec2(F32Add(x, slope_offset), y)

\* A threshold of the whole view instead of one frame.
close_to_end_view(note, now) == F32Lt(F32Sub(note[1], now), VIEW)

close_to_end(note, now) == F32Lt(F32Sub(note[1], now), FRAME_TIME)

\* The landing point particles_for_note computes for a note at pos.
LandingPoint(pos) ==
    LET rest_y == F32Sub(F32FromInt(HEIGHT), pos.y)
        end_x  == F32Add(F32Mul(rest_y, SLOPE_ANGLE), pos.x)
    IN  Vec2(end_x, F32FromInt(HEIGHT))

Particle_new(pos, vel) == [pos |-> pos, vel |-> vel, lifetime |-> F32Zero]

Particle_update(p) ==
    [pos |-> Vec2Add(p.pos, p.vel),
     vel |-> Vec2Add(p.vel, GRAVITY),
     lifetime |-> F32Add(p.lifetime, FRAME_TIME)]

\* The filter of Particles::update.
Retained(p) == ~F32Ge(p.pos.y, F32FromInt(HEIGHT))

\* Culling on the position before the integration step.
Particles_update_cull_first(ps) ==
    LET kept == SelectSeq(ps, Retained)
    IN  [i \in 1..Len(kept) |-> Particle_update(kept[i])]

Particles_update_of(ps) ==
    SelectSeq([i \in 1..Len(ps) |-> Particle_update(ps[i])], Retained)

spawn_explosion(pos, vels) == [i \in 1..Len(vels) |-> Particle_new(pos, vels[i])]

\* The palette index Sketch::draw passes to select_color for a note.
PaletteIndex(note, lh) ==
    F32Trunc(F32RoundHalfAway(map(F32FromInt(note[2]), F32FromInt(lh[1]),
                                  F32FromInt(lh[2]), F32Zero,
                                  F32FromInt(PALETTE_LEN))),
             255)

RECURSIVE Concat(_)
Concat(ss) == IF ss = << >> THEN << >> ELSE Head(ss) \o Concat(Tail(ss))

---------------------------------------------------------------------------
(* Canvas                                                                  *)

\* PALETTE, each "#rrggbb" as its characters.
PALETTE ==
    << << "#", "1", "6", "0", "7", "2", "9" >>,
       << "#", "1", "7", "1", "8", "5", "6" >>,
       << "#", "2", "4", "3", "7", "7", "1" >>,
       << "#", "4", "1", "6", "e", "8", "f" >>,
       << "#", "d", "b", "f", "3", "f", "1" >> >>

HexDigits ==
    << "0", "1", "2", "3", "4", "5", "6", "7", "8", "9", "a", "b", "c", "d", "e", "f" >>

HexDigit(c) == (CHOOSE i \in 1..16 : HexDigits[i] = c) - 1

\* u8::from_str_radix(two characters, 16)
HexByte(hi, lo) == 16 * HexDigit(hi) + HexDigit(lo)

hex_to_rgb(hex) ==
    LET h == SelectSeq(hex, LAMBDA c : c # "#")
    IN  << HexByte(h[1], h[2]), HexByte(h[3], h[4]), HexByte(h[5], h[6]), 255 >>

\* Sketch::canvas: the palette handed to Canvas::new.
Palette == [i \in 1..Len(PALETTE) |-> hex_to_rgb(PALETTE[i])]

BUFFER_LEN == WIDTH * HEIGHT * 4

\* The buffer is WIDTH * HEIGHT * 4 bytes.  It is kept as the byte `bg` it
\* was last filled with and the bytes `px` written since that differ from it.
Filled(b) == [bg |-> b, px |-> [j \in {} |-> 0]]

BufAt(buf, j) == IF j \in DOMAIN buf.px THEN buf.px[j] ELSE buf.bg

BufSet(buf, j, v) ==
    LET dom == IF v = buf.bg THEN DOMAIN buf.px \ {j} ELSE DOMAIN buf.px \cup {j}
    IN  [buf EXCEPT !.px = [k \in dom |-> IF k = j THEN v ELSE buf.px[k]]]

BufSet4(buf, j, c) ==
    BufSet(BufSet(BufSet(BufSet(buf, j, c[1]), j + 1, c[2]), j + 2, c[3]), j + 3, c[4])

Pixel(buf, j) == << BufAt(buf, j), BufAt(buf, j + 1), BufAt(buf, j + 2), BufAt(buf, j + 3) >>

Canvas_new ==
    [buffer |-> Filled(255),
     pen_color |-> << 255, 255, 255, 255 >>,
     blend_mode |-> "Replace",
     panicked |-> FALSE]

select_color(c, color) ==
    [c EXCEPT !.pen_color = Palette[(color % Len(Palette)) + 1]]

idx(x, y) == (x + y * WIDTH) * 4

\* Indexing the buffer at j..j+3 panics past its end.
point_replace(c, j) ==
    IF j + 3 >= BUFFER_LEN THEN [c EXCEPT !.panicked = TRUE]
    ELSE [c EXCEPT !.buffer = BufSet4(c.buffer, j, c.pen_color)]

BlendChannel(pen, dst, mix) ==
    F32Trunc(F32Add(F32Mul(F32FromInt(pen), mix),
                    F32Mul(F32FromInt(dst), F32Sub(F32FromInt(1), mix))),
             255)

\* A blend that weighs the destination by mix and the pen by 1 - mix.
point_blend_swapped(c, j) ==
    LET a == c.pen_color[4] IN
    IF a = 0 THEN c
    ELSE IF a = 255 THEN point_replace(c, j)
    ELSE IF j + 3 >= BUFFER_LEN THEN [c EXCEPT !.panicked = TRUE]
    ELSE LET mix == F32Sub(F32FromInt(1), F32Div(F32FromInt(a), F32FromInt(255)))
             dst == Pixel(c.buffer, j)
         IN  [c EXCEPT !.buffer =
                 BufSet4(c.buffer, j,
                         [k \in 1..4 |-> BlendChannel(c.pen_color[k], dst[k], mix)])]

point_blend(c, j) ==
    LET a == c.pen_color[4] IN
    IF a = 0 THEN c
    ELSE IF a = 255 THEN point_replace(c, j)
    ELSE IF j + 3 >= BUFFER_LEN THEN [c EXCEPT !.panicked = TRUE]
    ELSE LET mix == F32Div(F32FromInt(a), F32FromInt(255))
             dst == Pixel(c.buffer, j)
         IN  [c EXCEPT !.buffer =
                 BufSet4(c.buffer, j,
                         [k \in 1..4 |-> BlendChannel(c.pen_color[k], dst[k], mix)])]

\* A guard that lets x = 640.0 and y = 480.0 through.
Clipped_off_by_one(pos) ==
    \/ F32Lt(F32FromInt(640), pos.x)
    \/ F32Lt(pos.x, F32Zero)
    \/ F32Lt(F32FromInt(480), pos.y)
    \/ F32Lt(pos.y, F32Zero)

\* The guard of draw_point.
Clipped(pos) ==
    \/ F32Ge(pos.x, F32FromInt(640))
    \/ F32Lt(pos.x, F32Zero)
    \/ F32Ge(pos.y, F32FromInt(480))
    \/ F32Lt(pos.y, F32Zero)

\* A panic ends the process: a canvas that panicked takes no further call.
draw_point(c, pos) ==
    IF c.panicked \/ Clipped(pos) THEN c
    ELSE LET buffer_idx == idx(F32Trunc(pos.x, 2^30), F32Trunc(pos.y, 2^30))
         IN  IF c.blend_mode = "Replace" THEN point_replace(c, buffer_idx)
             ELSE point_blend(c, buffer_idx)

RECURSIVE DrawPoints(_, _)
DrawPoints(c, pts) ==
    IF pts = << >> THEN c ELSE DrawPoints(draw_point(c, Head(pts)), Tail(pts))

F32Abs(a) == [a EXCEPT !.s = 1]
F32Max(a, b) == IF F32Lt(a, b) THEN b ELSE a

\* glam: Vec2::length, Vec2::distance, Vec2::normalize, Vec2 * f32.
Vec2Length(a) == F32Sqrt(F32Add(F32Mul(a.x, a.x), F32Mul(a.y, a.y)))
Vec2Distance(a, b) == Vec2Length(Vec2Sub(a, b))
Vec2Scale(a, k) == Vec2(F32Mul(a.x, k), F32Mul(a.y, k))
Vec2Normalize(a) == Vec2Scale(a, F32Div(F32FromInt(1), Vec2Length(a)))

draw_line(c, from, to) ==
    LET delta == Vec2Sub(to, from)
        axis_biggest_distance == F32Trunc(F32Max(F32Abs(delta.x), F32Abs(delta.y)), 2^30)
    IN  IF axis_biggest_distance = 0 THEN c
        ELSE LET normalized == Vec2Normalize(delta)
             IN  DrawPoints(c,
                     [k \in 1..axis_biggest_distance |->
                         Vec2Add(from, Vec2Scale(normalized, F32FromInt(k - 1)))])

draw_curve(c, start, control, end) ==
    LET points == F32Add(F32Add(Vec2Distance(start, control), Vec2Distance(control, end)),
                         Vec2Distance(end, start))
        n      == F32Trunc(points, 2^30)
        point3(i) ==
            LET proportion == F32Div(F32FromInt(i), points)
                point1 == Vec2Add(start, Vec2Scale(Vec2Sub(control, start), proportion))
                point2 == Vec2Add(control, Vec2Scale(Vec2Sub(end, control), proportion))
            IN  Vec2Add(point1, Vec2Scale(Vec2Sub(point2, point1), proportion))
    IN  IF n <= 1 THEN c ELSE DrawPoints(c, [i \in 1..(n - 1) |-> point3(i)])

draw_circle(c, pos, radius) ==
    LET left_x   == F32Trunc(F32Sub(pos.x, radius), 2^30)
        right_x  == F32Trunc(F32Add(pos.x, radius), 2^30)
        top_y    == F32Trunc(F32Sub(pos.y, radius), 2^30)
        bottom_y == F32Trunc(F32Add(pos.y, radius), 2^30)
        rows     == bottom_y - top_y + 1
        cols     == right_x - left_x + 1
        offset(k) == Vec2(F32FromInt(left_x + (k - 1) \div rows),
                          F32FromInt(top_y + ((k - 1) % rows)))
        inside(o) == F32Lt(Vec2Distance(o, pos), radius)
    IN  IF rows <= 0 \/ cols <= 0 THEN c
        ELSE DrawPoints(c, SelectSeq([k \in 1..(rows * cols) |-> offset(k)], inside))

---------------------------------------------------------------------------
(* Sketch::new and Sketch::run                                             *)

Init ==
    /\ notes \in Tables
    /\ frame = 0
    /\ time = F32Zero
    /\ visible_notes = << >>
    /\ note_lowest_highest = note_find_lowest_highest(notes)
    /\ particles = << >>
    /\ lines = << >>
    /\ pc = "droplets_update"
    /\ canvas_calls = << >>
    /\ sink = << >>
    /\ bursts = << >>
    /\ canvas = Canvas_new
    /\ draws = << >>

\* Sketch::update, first statement: self.droplets.update().
Particles_update ==
    /\ pc = "droplets_update"
    /\ particles' = Particles_update_of(particles)
    /\ pc' = "update_visible_notes"
    /\ UNCHANGED << notes, frame, time, visible_notes, note_lowest_highest,
                    lines, canvas_calls, sink, bursts, canvas, draws >>

\* A loop whose clock follows the time slept rather than the frame counter.
update_visible_notes_drift ==
    /\ pc = "update_visible_notes"
    /\ \E lag \in {0, 1} :
          time' = F32Add(TimeOfFrame(frame), F32Mul(F32FromInt(lag), FRAME_TIME))
    /\ visible_notes' = VisibleNotes(notes, time')
    /\ pc' = "trigger"
    /\ UNCHANGED << notes, frame, note_lowest_highest, particles, lines,
                    canvas_calls, sink, bursts, canvas, draws >>

update_visible_notes ==
    /\ pc = "update_visible_notes"
    /\ time' = TimeOfFrame(frame)
    /\ visible_notes' = VisibleNotes(notes, time')
    /\ pc' = "trigger"
    /\ UNCHANGED << notes, frame, note_lowest_highest, particles, lines,
                    canvas_calls, sink, bursts, canvas, draws >>

CloseNow(note) == close_to_end(note, time)

\* Sketch::update, the loop over visible_notes: particles_for_note(pos) for
\* every note close to its end, each pushing a line and an explosion.
TriggerBursts ==
    /\ pc = "trigger"
    /\ LET close == SelectSeq(visible_notes, CloseNow)
           posOf(i) == pos_for(close[i], time, note_lowest_highest)
       IN  \E ex \in [1..Len(close) -> Explosions] :
             /\ lines' = lines \o
                    [i \in 1..Len(close) |-> << posOf(i), LandingPoint(posOf(i)) >>]
             /\ particles' = particles \o
                    Concat([i \in 1..Len(close) |->
                               spawn_explosion(LandingPoint(posOf(i)), ex[i])])
             /\ bursts' = bursts \o
                    [i \in 1..Len(close) |-> [frame |-> frame, note |-> close[i]]]
    /\ pc' = "fill"
    /\ UNCHANGED << notes, frame, time, visible_notes, note_lowest_highest,
                    canvas_calls, sink, canvas, draws >>

\* Sketch::draw: self.canvas.buffer.fill(0).
ClearBuffer ==
    /\ pc = "fill"
    /\ canvas_calls' = << >>
    /\ pc' = "trails"
    /\ UNCHANGED << notes, frame, time, visible_notes, note_lowest_highest,
                    particles, lines, sink, bursts, canvas, draws >>

TrailCalls(note, now, lh) ==
    << [op |-> "select_color", color |-> PaletteIndex(note, lh)],
       [op |-> "draw_line",
        from |-> pos_for(<< F32Add(note[1], FRAME_TIME), note[2] >>, now, lh),
        to |-> pos_for(note, now, lh)] >>

\* Sketch::draw, the loop over visible_notes.
DrawTrails ==
    /\ pc = "trails"
    /\ canvas_calls' = canvas_calls \o
           Concat([i \in 1..Len(visible_notes) |->
                      TrailCalls(visible_notes[i], time, note_lowest_highest)])
    /\ pc' = "droplets_draw"
    /\ UNCHANGED << notes, frame, time, visible_notes, note_lowest_highest,
                    particles, lines, sink, bursts, canvas, draws >>

CurveCall(p) ==
    LET next_pos == Vec2Add(p.vel, p.pos)
        middle   == Vec2Sub(Vec2DivScalar(Vec2Add(p.pos, next_pos), F32FromInt(2)),
                            GRAVITY)
    IN  [op |-> "draw_curve", start |-> p.pos, control |-> middle, end |-> next_pos]

\* A draw that leaves the pending segments in the queue.
Particles_draw_keep_lines ==
    /\ pc = "droplets_draw"
    /\ canvas_calls' = canvas_calls
           \o << [op |-> "select_color", color |-> 2] >>
           \o [i \in 1..Len(particles) |-> CurveCall(particles[i])]
           \o [i \in 1..Len(lines) |->
                  [op |-> "draw_line", from |-> lines[i][1], to |-> lines[i][2]]]
    /\ pc' = "display"
    /\ UNCHANGED << notes, frame, time, visible_notes, note_lowest_highest,
                    particles, lines, sink, bursts, canvas, draws >>

\* Particles::draw.
Particles_draw ==
    /\ pc = "droplets_draw"
    /\ canvas_calls' = canvas_calls
           \o << [op |-> "select_color", color |-> 2] >>
           \o [i \in 1..Len(particles) |-> CurveCall(particles[i])]
           \o [i \in 1..Len(lines) |->
                  [op |-> "draw_line", from |-> lines[i][1], to |-> lines[i][2]]]
    /\ lines' = << >>
    /\ pc' = "display"
    /\ UNCHANGED << notes, frame, time, visible_notes, note_lowest_highest,
                    particles, sink, bursts, canvas, draws >>

\* Canvas::display (RECORD is false: nothing is written to ffmpeg).
Display ==
    /\ pc = "display"
    /\ sink' = canvas_calls
    /\ pc' = "sleep"
    /\ UNCHANGED << notes, frame, time, visible_notes, note_lowest_highest,
                    particles, lines, canvas_calls, bursts, canvas, draws >>

\* Sketch::run: sleep, then self.frame += 1.
NextFrame ==
    /\ pc = "sleep"
    /\ frame < MaxFrame
    /\ frame' = frame + 1
    /\ pc' = "droplets_update"
    /\ UNCHANGED << notes, time, visible_notes, note_lowest_highest, particles,
                    lines, canvas_calls, sink, bursts, canvas, draws >>

Next ==
    \/ Particles_update
    \/ update_visible_notes
    \/ TriggerBursts
    \/ ClearBuffer
    \/ DrawTrails
    \/ Particles_draw
    \/ Display
    \/ NextFrame

Spec == Init /\ [][Next]_vars

---------------------------------------------------------------------------
(* The canvas on its own: calls on a Canvas in any order                   *)

\* Calls made on the canvas in one behaviour.
MaxDraws == 1

\* Positions, in quarters of a pixel.
Pt(q) == Vec2(Quarter(q[1]), Quarter(q[2]))

PointsInside == { << 0, 0 >>, << 3, 2 >>, << 2559, 1919 >> }

PointsOutside ==
    { << -1, 0 >>, << 0, -1 >>, << 2560, 0 >>, << 0, 1920 >>, << 2560, 1919 >>,
      << 2559, 1920 >>, << -4, -4 >>, << 4000, 40 >> }

Points == PointsInside \cup PointsOutside

LineEnds ==
    { << << 2550, 8 >>, << 2574, 8 >> >>,
      << << -8, 1908 >>, << 8, 1924 >> >>,
      << << 20, 20 >>, << 20, 20 >> >>,
      << << 20, 20 >>, << 22, 21 >> >> }

Circles == { << << 2, 2 >>, 6 >>, << << 2558, 1918 >>, 6 >> }

Curves == { << << 2552, 1912 >>, << 2564, 1904 >>, << 2568, 1924 >> >> }

Colors == { 0, 2, 7 }

\* pen_color is a public field: any four bytes.
Pens ==
    { << 255, 255, 255, 255 >>, << 200, 100, 50, 128 >>, << 0, 0, 3, 65 >>,
      << 9, 9, 9, 0 >>, << 1, 2, 3, 255 >> }

\* Pixels a Replace draw_point at (0, 0) can have left behind.
Dsts == { << 0, 0, 0, 0 >>, << 51, 255, 3, 255 >>, << 10, 200, 77, 31 >> }

\* Buffers a canvas can hold when a call arrives: as constructed, cleared by
\* buffer.fill(0), and with one pixel drawn since.
Buffers == { Filled(255), Filled(0) } \cup { BufSet4(Filled(0), 0, d) : d \in Dsts }

Call(op, pts, n) == [op |-> op, pts |-> pts, n |-> n]

InitCanvas ==
    /\ notes = << Note(0, 60), Note(500, 64), Note(1000, 67) >>
    /\ frame = 0
    /\ time = F32Zero
    /\ visible_notes = << >>
    /\ note_lowest_highest = note_find_lowest_highest(notes)
    /\ particles = << >>
    /\ lines = << >>
    /\ pc = "droplets_update"
    /\ canvas_calls = << >>
    /\ sink = << >>
    /\ bursts = << >>
    /\ \E buf \in Buffers, pen \in Pens, mode \in { "Replace", "Blend" } :
          canvas = [buffer |-> buf, pen_color |-> pen, blend_mode |-> mode,
                    panicked |-> FALSE]
    /\ draws = << >>

Called(c, call) ==
    /\ Len(draws) < MaxDraws
    /\ ~canvas.panicked
    /\ canvas' = c
    /\ draws' = Append(draws, call)
    /\ UNCHANGED sketch_vars

Canvas_select_color ==
    \E color \in Colors :
        Called(select_color(canvas, color), Call("select_color", << >>, color))

Canvas_fill ==
    Called([canvas EXCEPT !.buffer = Filled(0)], Call("fill", << >>, 0))

Canvas_draw_point ==
    \E q \in Points :
        Called(draw_point(canvas, Pt(q)), Call("draw_point", << q >>, 0))

Canvas_draw_line ==
    \E l \in LineEnds :
        Called(draw_line(canvas, Pt(l[1]), Pt(l[2])), Call("draw_line", l, 0))

Canvas_draw_curve ==
    \E k \in Curves :
        Called(draw_curve(canvas, Pt(k[1]), Pt(k[2]), Pt(k[3])), Call("draw_curve", k, 0))

Canvas_draw_circle ==
    \E k \in Circles :
        Called(draw_circle(canvas, Pt(k[1]), Quarter(k[2])),
               Call("draw_circle", << k[1] >>, k[2]))

NextCanvas ==
    \/ Canvas_select_color
    \/ Canvas_fill
    \/ Canvas_draw_point
    \/ Canvas_draw_line
    \/ Canvas_draw_curve
    \/ Canvas_draw_circle

SpecCanvas == InitCanvas /\ [][NextCanvas]_vars

---------------------------------------------------------------------------
(* Properties of the driver and the particle system                        *)

\* The frame's window, triggers and drawing have been computed.
AfterWindow == pc \in {"trigger", "fill", "trails", "droplets_draw", "display", "sleep"}

ExampleTable == << Note(0, 60), Note(500, 64), Note(1000, 67) >>

InWindow(n) == F32Ge(n[1], time) /\ F32Lt(n[1], F32Add(time, VIEW))

\* C1: once update_visible_notes has run, the visible window is exactly the
\* notes of the table with current_time <= time < current_time + VIEW (the
\* f32 sum), in table order; for the table [(0.0,60),(0.5,64),(1.0,67)] at
\* current_time 0.3 (frame 9) it is exactly [(0.5,64)].
C1_VisibleWindow ==
    AfterWindow =>
        /\ visible_notes = SelectSeq(notes, InWindow)
        /\ (notes = ExampleTable /\ frame = 9) =>
               /\ time = Ms(300)
               /\ note_lowest_highest = << 60, 67 >>
               /\ visible_notes = << Note(500, 64) >>

C1_Witness ==
    /\ AfterWindow
    /\ notes = ExampleTable
    /\ time = Ms(300)
    /\ visible_notes = << Note(500, 64) >>

HEIGHT_F32 == F32FromInt(HEIGHT)

AboveBottom(p) == F32Lt(p.pos.y, HEIGHT_F32)
LandsAboveBottom(p) == F32Lt(F32Add(p.pos.y, p.vel.y), HEIGHT_F32)

UpdatedSeq(ps) == [i \in 1..Len(ps) |-> Particle_update(ps[i])]

\* C2 as stated: one call of Particles::update removes every particle whose
\* vertical position was HEIGHT or more before the call and keeps every
\* particle whose vertical position was below HEIGHT before the call.
C2_CullByPositionBefore ==
    [][pc = "droplets_update" =>
          particles' = UpdatedSeq(SelectSeq(particles, AboveBottom))]_vars

\* C2 amended: one call of Particles::update removes exactly the particles
\* whose vertical position after that call's integration step (position plus
\* velocity before the call) is HEIGHT or more, and keeps the others.
C2_CullByPositionAfter ==
    [][pc = "droplets_update" =>
          particles' = UpdatedSeq(SelectSeq(particles, LandsAboveBottom))]_vars

\* A call of Particles::update is about to keep a particle that is at HEIGHT
\* and to remove one that is above it.
C2_Witness ==
    /\ pc = "droplets_update"
    /\ \E i \in 1..Len(particles) :
          ~AboveBottom(particles[i]) /\ LandsAboveBottom(particles[i])
    /\ \E i \in 1..Len(particles) :
          AboveBottom(particles[i]) /\ ~LandsAboveBottom(particles[i])

FrameTime == F32Mul(F32FromInt(frame), FRAME_TIME)

Qualifies(n) == F32Lt(F32Sub(n[1], FrameTime), FRAME_TIME)

Fresh(p) == p.lifetime = F32Zero

Count(seq, x) == Cardinality({i \in 1..Len(seq) : seq[i] = x})

\* C5: when the trigger loop of a frame has run, the pending segments are
\* those of exactly the visible notes whose time-to-arrival is below one
\* frame duration, one per note and in window order, each from the note's
\* position at the frame's current_time to its landing point, and each has
\* spawned one explosion of 2 to 4 particles at its landing point.
C5_TriggerPerCloseNote ==
    pc = "fill" =>
        LET q     == SelectSeq(visible_notes, Qualifies)
            ends  == [i \in 1..Len(lines) |-> lines[i][2]]
            fresh == SelectSeq(particles, Fresh)
            at    == [i \in 1..Len(fresh) |-> fresh[i].pos]
        IN  /\ Len(lines) = Len(q)
            /\ \A i \in 1..Len(q) :
                  /\ lines[i][1] = pos_for(q[i], FrameTime, note_lowest_highest)
                  /\ lines[i][2] = LandingPoint(lines[i][1])
                  /\ Count(at, ends[i]) >= 2 * Count(ends, ends[i])
                  /\ Count(at, ends[i]) <= 4 * Count(ends, ends[i])
            /\ \A j \in 1..Len(at) : Count(ends, at[j]) > 0
            /\ SelectSeq(bursts, LAMBDA b : b.frame = frame)
                   = [i \in 1..Len(q) |-> [frame |-> frame, note |-> q[i]]]

\* Two notes are visible, one of them close to its end.
C5_Witness ==
    /\ pc = "fill"
    /\ Len(visible_notes) >= 2
    /\ Len(lines) = 1
    /\ Len(SelectSeq(particles, Fresh)) = 3

\* The segments Particles::draw drew: the draw_line calls after the last
\* select_color.
RECURSIVE LastSelect(_, _)
LastSelect(calls, i) ==
    IF i = 0 THEN 0
    ELSE IF calls[i].op = "select_color" THEN i
    ELSE LastSelect(calls, i - 1)

IsDrawLine(c) == c.op = "draw_line"

DropletSegments(calls) ==
    LET k == LastSelect(calls, Len(calls))
        seg == SelectSeq(SubSeq(calls, k + 1, Len(calls)), IsDrawLine)
    IN  [i \in 1..Len(seg) |-> << seg[i].from, seg[i].to >>]

BurstSegments(n) ==
    LET b == SelectSeq(bursts, LAMBDA x : x.frame = n)
    IN  [i \in 1..Len(b) |->
            LET pos == pos_for(b[i].note, FrameTime, note_lowest_highest)
            IN  << pos, LandingPoint(pos) >>]

\* C6: the pending-segment queue is empty at the start of every frame's
\* update and after every draw, and the segments a frame's draw puts on the
\* canvas are exactly those enqueued in that frame's update.
C6_SingleFrameQueue ==
    /\ pc \in {"droplets_update", "update_visible_notes", "trigger", "display", "sleep"}
          => lines = << >>
    /\ pc \in {"display", "sleep"}
          => DropletSegments(canvas_calls) = BurstSegments(frame)

\* A frame that drew a segment is followed by a frame that enqueued none.
C6_Witness ==
    /\ pc = "display"
    /\ lines = << >>
    /\ DropletSegments(canvas_calls) = << >>
    /\ DropletSegments(sink) # << >>

LoopStatements ==
    {"droplets_update", "update_visible_notes", "trigger", "fill", "trails",
     "droplets_draw", "display", "sleep"}

StepOrder ==
    /\ pc = "droplets_update" =>
          pc' = "update_visible_notes" /\ UNCHANGED << frame, time, visible_notes >>
    /\ pc = "update_visible_notes" =>
          pc' = "trigger" /\ time' = FrameTime /\ UNCHANGED << frame, particles >>
    /\ pc = "trigger" =>
          pc' = "fill" /\ UNCHANGED << frame, time, visible_notes, canvas_calls >>
    /\ pc = "fill" =>
          pc' = "trails" /\ canvas_calls' = << >>
             /\ UNCHANGED << frame, time, particles, lines >>
    /\ pc = "trails" =>
          pc' = "droplets_draw" /\ UNCHANGED << frame, time, particles, lines >>
    /\ pc = "droplets_draw" =>
          pc' = "display" /\ UNCHANGED << frame, time, particles >>
    /\ pc = "display" =>
          pc' = "sleep" /\ sink' = canvas_calls
             /\ UNCHANGED << frame, time, canvas_calls >>
    /\ pc = "sleep" =>
          pc' = "droplets_update" /\ frame' = frame + 1
             /\ UNCHANGED << time, particles, lines, canvas_calls, sink >>
    /\ F32Ge(time', time)

\* C8: the loop has no terminal state (control is always at one of its
\* statements, none of which has a guard); every iteration runs particle update, time and window, triggers,
\* clear, trails, particles and segments, present and then frame += 1, in
\* this order; the time used for the window, the triggers and the drawing
\* of frame n is n * frame_duration, and it never decreases.
C8_LoopOrder ==
    /\ [](AfterWindow => time = FrameTime)
    /\ [](pc \in LoopStatements)
    /\ [][StepOrder]_vars

C8_Witness ==
    /\ pc = "sleep"
    /\ frame = 9
    /\ time = Ms(300)
    /\ sink = canvas_calls
    /\ sink # << >>

BurstFrames(n) == {bursts[i].frame : i \in {j \in 1..Len(bursts) : bursts[j].note = n}}

NoteSet == {notes[i] : i \in 1..Len(notes)}

RECURSIVE LifetimeAfter(_)
LifetimeAfter(n) == IF n = 0 THEN F32Zero ELSE F32Add(LifetimeAfter(n - 1), FRAME_TIME)

\* The lifetime of a particle after 30 updates.
OldestLifetime == LifetimeAfter(30)

\* A burst whose particles can still be alive: particles spawned in frame f
\* are updated for the 31st time in frame f + 31.
Recent(b) == b.frame + 31 > frame \/ (b.frame + 31 = frame /\ pc = "droplets_update")

\* C10: every particle is spawned at vertical position HEIGHT and is removed
\* by its 31st update at the latest, so at most 4 particles per burst of the
\* last 31 frames are alive, and none when no burst is that recent.
C10_ParticlesBounded ==
    /\ \A i \in 1..Len(particles) :
          /\ F32Ge(OldestLifetime, particles[i].lifetime)
          /\ Fresh(particles[i]) => particles[i].pos.y = HEIGHT_F32
    /\ Len(particles) <= 4 * Cardinality({i \in 1..Len(bursts) : Recent(bursts[i])})

\* The last particle of a burst has just been removed, by its 31st update.
C10_Witness ==
    /\ pc = "update_visible_notes"
    /\ particles = << >>
    /\ bursts # << >>
    /\ \A i \in 1..Len(bursts) : bursts[i].frame + 31 = frame
    /\ \E i \in 1..Len(sink) : sink[i].op = "draw_curve"

\* C7: the palette index Sketch::draw computes for every visible note's
\* trail is in 0..PALETTE_LEN-1 before select_color's modulo, and it is
\* non-decreasing in pitch.
C7_PaletteIndexInRange ==
    pc = "droplets_draw" =>
        \A i \in 1..Len(visible_notes) :
            /\ canvas_calls[2 * i - 1].op = "select_color"
            /\ canvas_calls[2 * i - 1].color \in 0..(PALETTE_LEN - 1)
            /\ \A j \in 1..Len(visible_notes) :
                  visible_notes[i][2] <= visible_notes[j][2]
                      => canvas_calls[2 * i - 1].color <= canvas_calls[2 * j - 1].color

---------------------------------------------------------------------------
(* Properties of the canvas                                                *)

LastCall == draws'[Len(draws')]

Drew(op) == draws' # draws /\ LastCall.op = op

\* x < 0, x >= WIDTH, y < 0 or y >= HEIGHT, for a position in quarters.
OutOfRange(q) ==
    q[1] < 0 \/ q[1] >= 4 * WIDTH \/ q[2] < 0 \/ q[2] >= 4 * HEIGHT

Written(buf) == DOMAIN buf.px

\* The bytes on which two buffers differ.
Changed(b1, b2) ==
    IF b1.bg = b2.bg
    THEN { j \in Written(b1) \cup Written(b2) : BufAt(b1, j) # BufAt(b2, j) }
    ELSE 0..(BUFFER_LEN - 1)

\* Byte j belongs to a pixel of [0, WIDTH) x [0, HEIGHT) that meets the
\* bounding box of the positions pts, widened by margin (in quarters).
InBox(j, pts, margin) ==
    LET x  == (j \div 4) % WIDTH
        y  == (j \div 4) \div WIDTH
        xs == { pts[i][1] : i \in 1..Len(pts) }
        ys == { pts[i][2] : i \in 1..Len(pts) }
    IN  /\ j \in 0..(BUFFER_LEN - 1)
        /\ \E lo \in xs, hi \in xs : lo - margin <= 4 * x + 3 /\ 4 * x <= hi + margin
        /\ \E lo \in ys, hi \in ys : lo - margin <= 4 * y + 3 /\ 4 * y <= hi + margin

ShapeOps == { "draw_line", "draw_curve", "draw_circle" }

ClipStep ==
    /\ Drew("draw_point") /\ OutOfRange(LastCall.pts[1]) => canvas' = canvas
    /\ draws' # draws /\ LastCall.op \in ShapeOps =>
          /\ \A j \in Changed(canvas.buffer, canvas'.buffer) :
                InBox(j, LastCall.pts, LastCall.n)
          /\ canvas'.pen_color = canvas.pen_color
          /\ canvas'.blend_mode = canvas.blend_mode

\* C3: draw_point at a position with x < 0, x >= WIDTH, y < 0 or
\* y >= HEIGHT leaves the buffer, the pen colour and the blend mode as they
\* were, in either blend mode and for any pen colour; draw_line, draw_curve
\* and draw_circle change only bytes of pixels inside the canvas (those of
\* the shape's bounding box), and no call indexes the buffer out of range.
C3_ClipOutside ==
    /\ [][ClipStep]_vars
    /\ [](~canvas.panicked /\ Written(canvas.buffer) \subseteq 0..(BUFFER_LEN - 1))

\* A Blend draw_point with a translucent pen was asked for at (640, 479.75),
\* on a canvas that shows a pixel.
C3_Witness ==
    /\ draws = << Call("draw_point", << << 2560, 1919 >> >>, 0) >>
    /\ canvas.blend_mode = "Blend"
    /\ canvas.pen_color = << 200, 100, 50, 128 >>
    /\ Pixel(canvas.buffer, 0) = << 51, 255, 3, 255 >>

PixelIndex(q) == 4 * ((q[1] \div 4) + (q[2] \div 4) * WIDTH)

\* pen*a/255 + dst*(255-a)/255, truncated to an integer.
Exact(pen, dst, a) == (pen * a + dst * (255 - a)) \div 255

OthersKept(j) ==
    /\ Changed(canvas.buffer, canvas'.buffer) \subseteq j..(j + 3)
    /\ canvas'.pen_color = canvas.pen_color
    /\ canvas'.blend_mode = canvas.blend_mode

BlendStep(ok(_, _)) ==
    Drew("draw_point") /\ ~OutOfRange(LastCall.pts[1]) /\ canvas.blend_mode = "Blend" =>
        LET j   == PixelIndex(LastCall.pts[1])
            pen == canvas.pen_color
            a   == pen[4]
            dst == Pixel(canvas.buffer, j)
            new == Pixel(canvas'.buffer, j)
        IN  /\ OthersKept(j)
            /\ a = 0 => new = dst
            /\ a = 255 => new = pen
            /\ a \notin { 0, 255 } =>
                  \A k \in 1..4 : new[k] \in 0..255 /\ ok(new[k], Exact(pen[k], dst[k], a))
            /\ pen = << 200, 100, 50, 128 >> /\ dst = << 0, 0, 0, 0 >> =>
                  new = << 100, 50, 25, 64 >>

IsExact(v, e) == v = e
ExactOrOneLess(v, e) == v = e \/ v = e - 1

\* C4 as stated: in Blend mode a pen of alpha 0 leaves the pixel, a pen of
\* alpha 255 replaces it, and any other pen sets every channel, alpha
\* included, to exactly the truncation of pen*a/255 + dst*(255-a)/255, within
\* 0..255; pen (200,100,50,128) over (0,0,0,0) gives (100,50,25,64); no other
\* pixel changes.
C4_BlendExact == [][BlendStep(IsExact)]_vars

\* C4, amended: as above, but every channel is the truncation of
\* pen*a/255 + dst*(255-a)/255 or one less than it (the sum is formed in single
\* precision, whose rounding can land just below an integer the exact sum
\* reaches).
C4_BlendWithinOne == [][BlendStep(ExactOrOneLess)]_vars

\* The pen (200,100,50,128) was blended onto the cleared pixel (0, 0).
C4_Witness ==
    /\ Len(draws) = 1
    /\ draws[1] = Call("draw_point", << << 0, 0 >> >>, 0)
    /\ canvas.blend_mode = "Blend"
    /\ canvas.pen_color = << 200, 100, 50, 128 >>
    /\ Pixel(canvas.buffer, 0) = << 100, 50, 25, 64 >>
    /\ canvas.buffer.bg = 0

=============================================================================
